---- MODULE Spec2Model ----
(***************************************************************************)
(* Model of the in-memory gRPC data service of src/src/main.rs:            *)
(* MyGrpcService holds three Mutex-protected vectors (news, posts, users)  *)
(* and eighteen handlers.  A handler invocation is a thread that receives  *)
(* a request, takes the collection's mutex, runs its body and drops the    *)
(* guard when it returns.                                                  *)
(***************************************************************************)
EXTENDS Integers, Sequences, FiniteSets, TLC

\* ------------------------------------------------------------------ bounds
MaxCalls == 2        \* handler calls issued in one behaviour

\* worker threads of the runtime that run handler invocations in parallel
Threads == {1, 2}

\* Option<T>: None is <<>>, Some(v) is <<v>>
None == <<>>
Some(v) == <<v>>

\* ------------------------------------------------------------ seed state
SeedNews ==
  << [id |-> 1, title |-> "Note 1", body |-> "Content 1", post_image |-> "Post image 1", status |-> 0],
     [id |-> 2, title |-> "Note 2", body |-> "Content 2", post_image |-> "Post image 2", status |-> 1],
     [id |-> 3, title |-> "Note 3", body |-> "Content 3", post_image |-> "Post image 3", status |-> 1],
     [id |-> 4, title |-> "Note 4", body |-> "Content 4", post_image |-> "Post image 4", status |-> 1],
     [id |-> 5, title |-> "Note 5", body |-> "Content 5", post_image |-> "Post image 5", status |-> 1] >>

SeedPosts ==
  << [user_id |-> 1, id |-> 1, title |-> "Post 1", body |-> "Body 1"],
     [user_id |-> 1, id |-> 2, title |-> "Post 2", body |-> "Body 2"] >>

SeedUsers ==
  << [id |-> 1, name |-> "Leanne Graham", username |-> "Bret", email |-> "Sincere@april.biz",
      address |-> None, phone |-> "1-770-736-8031 x56442", website |-> "hildegard.org",
      company |-> None] >>

\* ------------------------------------------------------- request domains
\* ids of the id-only requests (get_*, delete_*): 0 is never stored, 1 is a
\* seed of every collection, 2 is a seed of news and posts and the first id
\* create_user assigns
ReqIds == {0, 1, 2}

\* ids of the messages that address a stored entity (edit_news, update_post,
\* patch_user)
MsgIds == {1, 2}

\* ids the message of a create call may carry: unset, or an id already stored
NewIds == {0, 1}

NewsMsg(i, s) ==
  [id |-> i, title |-> "New title", body |-> "New body", post_image |-> "New image", status |-> s]

PostMsg(i, u) == [user_id |-> u, id |-> i, title |-> "New Post", body |-> "New Body"]

UserMsg(i) ==
  [id |-> i, name |-> "New Name", username |-> "newuser", email |-> "new@mail",
   address |-> Some("street"), phone |-> "555", website |-> "new.org", company |-> Some("firm")]

\* News messages of edit_news and of add_news
EditReqs == { NewsMsg(i, s) : i \in MsgIds, s \in {0, 1} }
AddReqs == { NewsMsg(i, 0) : i \in NewIds }

\* Post messages of update_post and of create_post
UpdateReqs == { PostMsg(i, u) : i \in MsgIds, u \in {1, 2} }
PostNewReqs == { PostMsg(i, 2) : i \in NewIds }

\* User messages of create_user
UserNewReqs == { UserMsg(i) : i \in NewIds }

\* PatchUserRequest: id plus three optional fields
PatchReqs ==
  { [id |-> i, name |-> n, username |-> u, email |-> e] :
      i \in MsgIds, n \in {None, Some("New Name")}, u \in {None, Some("newuser")},
      e \in {None, Some("new@mail")} }

\* repeated-id lists (MultipleNewsId.ids, users Filter.id)
IdLists == { <<>>, <<0>>, <<2, 0, 2>> }

\* posts Filter.user_id
PostFilters == { None, Some(1), Some(2) }

NewsOps == {"get_all_news", "get_news", "get_multiple_news", "delete_news", "edit_news", "add_news"}
PostOps == {"list_posts", "get_post", "create_post", "update_post", "delete_post"}
UserOps == {"list_users", "get_user", "create_user", "patch_user", "delete_user"}

\* the request messages: NewsId / PostId / UserId { id }, MultipleNewsId { ids },
\* UserFilter { id: repeated } (its list is called ids here), PostFilter { user_id }
ArgsOf(o) ==
  CASE o = "get_all_news" -> {None}
    [] o \in {"get_news", "delete_news", "get_post", "delete_post", "get_user", "delete_user"} ->
         { [id |-> i] : i \in ReqIds }
    [] o \in {"get_multiple_news", "list_users"} -> { [ids |-> l] : l \in IdLists }
    [] o = "edit_news" -> EditReqs
    [] o = "add_news" -> AddReqs
    [] o = "list_posts" -> { [user_id |-> f] : f \in PostFilters }
    [] o = "update_post" -> UpdateReqs
    [] o = "create_post" -> PostNewReqs
    [] o = "create_user" -> UserNewReqs
    [] o = "patch_user" -> PatchReqs

CollOf(o) ==
  IF o \in NewsOps THEN "news" ELSE IF o \in PostOps THEN "posts" ELSE "users"

\* ------------------------------------------------------------ responses
NoResp == [status |-> "None", msg |-> "", val |-> None]
Ok(v) == [status |-> "Ok", msg |-> "", val |-> v]
NotFound(m) == [status |-> "NotFound", msg |-> m, val |-> None]

\* ------------------------------------------------- Vec / iterator helpers
Ids(s) == { s[i].id : i \in 1..Len(s) }

\* variant of MaxId: unwrap_or(1) for the empty vector
MaxIdOr1(s) == IF s = <<>> THEN 1 ELSE CHOOSE m \in Ids(s) : \A x \in Ids(s) : x <= m

\* iter().map(|n| n.id).max().unwrap_or(0)
MaxId(s) == IF s = <<>> THEN 0 ELSE CHOOSE m \in Ids(s) : \A x \in Ids(s) : x <= m

\* iter().find(|n| n.id == id): index of the first match, 0 when there is none
Find(s, id) ==
  IF \E i \in 1..Len(s) : s[i].id = id
  THEN CHOOSE i \in 1..Len(s) : s[i].id = id /\ \A j \in 1..(i - 1) : s[j].id # id
  ELSE 0

\* variant of Retain: the predicate inverted, retain(|e| e.id == id)
RetainInverted(s, id) == SelectSeq(s, LAMBDA e : e.id = id)

\* retain(|e| e.id != id)
Retain(s, id) == SelectSeq(s, LAMBDA e : e.id # id)

\* ids.contains(&n.id)
Contains(l, x) == \E i \in 1..Len(l) : l[i] = x


\* --------------------------------------------- handler bodies (one guard)
\* Each operator is the whole body of a handler run on the vector s with the
\* request r: the vector it leaves and the response it returns.
Res(s, r) == [store |-> s, resp |-> r]

\* NewsList { news: lock.clone() }
GetAllNews(s, r) == Res(s, Ok([news |-> s]))

GetNews(s, id) ==
  LET i == Find(s, id) IN
  IF i # 0 THEN Res(s, Ok(s[i])) ELSE Res(s, NotFound("News not found"))

\* variant of GetMultipleNews: one lookup per requested id, in request order
GetMultipleNewsPerId(s, ids) ==
  LET hits == SelectSeq(ids, LAMBDA i : Find(s, i) # 0)
  IN Res(s, Ok([news |-> [k \in 1..Len(hits) |-> s[Find(s, hits[k])]]]))

\* news.iter().filter(|n| ids.contains(&n.id)).cloned().collect()
GetMultipleNews(s, ids) ==
  Res(s, Ok([news |-> SelectSeq(s, LAMBDA n : Contains(ids, n.id))]))

DeleteNews(s, id) ==
  LET len_before == Len(s)
      after == Retain(s, id)
      len_after == Len(after)
  IN IF len_before = len_after THEN Res(after, NotFound("News not found"))
     ELSE Res(after, Ok(None))

\* the three assignments of edit_news on the element found at index i
EditTitle(s, i, n) == [s EXCEPT ![i].title = n.title]
EditBody(s, i, n) == [s EXCEPT ![i].body = n.body]
\* variant of EditImage: the status of the request is stored as well
EditImageAndStatus(s, i, n) ==
  [s EXCEPT ![i].post_image = n.post_image, ![i].status = n.status]
EditImage(s, i, n) == [s EXCEPT ![i].post_image = n.post_image]

EditNews(s, n) ==
  LET i == Find(s, n.id) IN
  IF i # 0 THEN Res(EditImage(EditBody(EditTitle(s, i, n), i, n), i, n), Ok(n))
  ELSE Res(s, NotFound("News not found"))

\* variant of NewId: the id taken from the length of the vector
NewIdByLen(s) == Len(s) + 1

\* variant of NewId: the smallest positive id that no element carries
NewIdFirstFree(s) == CHOOSE m \in 1..(Len(s) + 1) :
  m \notin Ids(s) /\ \A x \in 1..(m - 1) : x \in Ids(s)

\* variant of Push: the new element put in front
PushFront(s, e, new_id) == <<[e EXCEPT !.id = new_id]>> \o s

\* variant of Push: the request pushed as received, its id not overwritten
PushRaw(s, e, new_id) == Append(s, e)

\* new_id = max + 1; e.id = new_id; push(e.clone()); Ok(e): shared by add_news,
\* create_post and create_user, which differ only in the message type
NewId(s) == MaxId(s) + 1
Push(s, e, new_id) == Append(s, [e EXCEPT !.id = new_id])
Create(s, e) == Res(Push(s, e, NewId(s)), Ok([e EXCEPT !.id = NewId(s)]))

ListPosts(s, filter) ==
  IF filter # None
  THEN Res(s, Ok([posts |-> SelectSeq(s, LAMBDA p : p.user_id = filter[1])]))
  ELSE Res(s, Ok([posts |-> s]))

\* variant of GetPost: the id used as a position in the vector
GetPostByIndex(s, id) ==
  IF id \in 1..Len(s) THEN Res(s, Ok(s[id])) ELSE Res(s, NotFound("Post not found"))

GetPost(s, id) ==
  LET i == Find(s, id) IN
  IF i # 0 THEN Res(s, Ok(s[i])) ELSE Res(s, NotFound("Post not found"))

\* variant of UpdatePost: an absent id is inserted instead of refused
UpdatePostUpsert(s, p) ==
  LET i == Find(s, p.id) IN
  IF i # 0 THEN [store |-> [s EXCEPT ![i] = p], resp |-> Ok(p)]
  ELSE [store |-> Append(s, p), resp |-> Ok(p)]

UpdatePost(s, p) ==
  LET i == Find(s, p.id) IN
  IF i # 0 THEN Res([s EXCEPT ![i] = p], Ok(p)) ELSE Res(s, NotFound("Post not found"))

DeletePost(s, id) ==
  LET len_before == Len(s)
      after == Retain(s, id)
  IN IF Len(after) < len_before
     THEN Res(after, Ok([success |-> TRUE, message |-> "Post deleted"]))
     ELSE Res(after, NotFound("Post not found"))

\* variant of ListUsers: no special case for the empty id set
ListUsersNoAll(s, ids) ==
  [store |-> s, resp |-> Ok([users |-> SelectSeq(s, LAMBDA u : Contains(ids, u.id))])]

ListUsers(s, ids) ==
  IF ids = <<>> THEN Res(s, Ok([users |-> s]))
  ELSE Res(s, Ok([users |-> SelectSeq(s, LAMBDA u : Contains(ids, u.id))]))

GetUser(s, id) ==
  LET i == Find(s, id) IN
  IF i # 0 THEN Res(s, Ok(s[i])) ELSE Res(s, NotFound("User not found"))

\* variant of PatchUsername: the username written to the name field
PatchUsernameIntoName(s, i, r) ==
  IF r.username # None THEN [s EXCEPT ![i].name = r.username[1]] ELSE s

\* the three conditional assignments of patch_user on the element at index i
PatchName(s, i, r) == IF r.name # None THEN [s EXCEPT ![i].name = r.name[1]] ELSE s
PatchUsername(s, i, r) == IF r.username # None THEN [s EXCEPT ![i].username = r.username[1]] ELSE s
PatchEmail(s, i, r) == IF r.email # None THEN [s EXCEPT ![i].email = r.email[1]] ELSE s

PatchUser(s, r) ==
  LET i == Find(s, r.id)
      after == PatchEmail(PatchUsername(PatchName(s, i, r), i, r), i, r)
  IN IF i # 0 THEN Res(after, Ok(after[i])) ELSE Res(s, NotFound("User not found"))

DeleteUser(s, id) ==
  LET len_before == Len(s)
      after == Retain(s, id)
  IN IF Len(after) < len_before
     THEN Res(after, Ok([success |-> TRUE, message |-> "User deleted"]))
     ELSE Res(after, NotFound("User not found"))

\* the handler named o, run as a whole on the vector s
Handler(o, s, r) ==
  CASE o = "get_all_news" -> GetAllNews(s, r)
    [] o = "get_news" -> GetNews(s, r.id)
    [] o = "get_multiple_news" -> GetMultipleNews(s, r.ids)
    [] o = "delete_news" -> DeleteNews(s, r.id)
    [] o = "edit_news" -> EditNews(s, r)
    [] o = "add_news" -> Create(s, r)
    [] o = "list_posts" -> ListPosts(s, r.user_id)
    [] o = "get_post" -> GetPost(s, r.id)
    [] o = "create_post" -> Create(s, r)
    [] o = "update_post" -> UpdatePost(s, r)
    [] o = "delete_post" -> DeletePost(s, r.id)
    [] o = "list_users" -> ListUsers(s, r.ids)
    [] o = "get_user" -> GetUser(s, r.id)
    [] o = "create_user" -> Create(s, r)
    [] o = "patch_user" -> PatchUser(s, r)
    [] o = "delete_user" -> DeleteUser(s, r.id)

\* ------------------------------------------------------------------ state
VARIABLES
  news, posts, users,   \* the three vectors of MyGrpcService
  lock,                 \* per collection: the thread holding its mutex guard, 0 if free
  pc,                   \* per thread: position of its handler invocation
  op, req,              \* per thread: the handler it runs and the request it got
  loc,                  \* per thread: the handler's local (new_id, or the found index)
  resp,                 \* per thread: the response of its handler
  ncalls,               \* calls issued so far
  abs,                  \* the vectors as left by the invocations in guard order
  aresp,                \* per thread: the response of its invocation in that order
  created,              \* per collection: the creates answered since its last delete
  base,                 \* per collection: its length after its last delete
  snap,                 \* per thread: the vector as it was when the thread took the guard
  gone,                 \* per collection: the ids that a delete has removed so far
  poisoned              \* per collection: a panic dropped the guard of its mutex

vars ==
  <<news, posts, users, lock, pc, op, req, loc, resp, ncalls, abs, aresp, created, base,
    snap, gone, poisoned>>

Colls == {"news", "posts", "users"}

Store(c) == IF c = "news" THEN news ELSE IF c = "posts" THEN posts ELSE users

Init ==
  /\ news = SeedNews
  /\ posts = SeedPosts
  /\ users = SeedUsers
  /\ lock = [c \in Colls |-> 0]
  /\ pc = [t \in Threads |-> "idle"]
  /\ op = [t \in Threads |-> "none"]
  /\ req = [t \in Threads |-> None]
  /\ loc = [t \in Threads |-> 0]
  /\ resp = [t \in Threads |-> NoResp]
  /\ ncalls = 0
  /\ abs = [news |-> SeedNews, posts |-> SeedPosts, users |-> SeedUsers]
  /\ aresp = [t \in Threads |-> NoResp]
  /\ created = [c \in Colls |-> <<>>]
  /\ base = [c \in Colls |-> Len(Store(c))]
  /\ snap = [t \in Threads |-> <<>>]
  /\ gone = [c \in Colls |-> {}]
  /\ poisoned = [c \in Colls |-> FALSE]

\* --------------------------------------------------- invocation life cycle
\* the service host dispatches a request to a handler
\* (to the first idle worker: the workers are interchangeable)
Call(t) ==
  /\ pc[t] = "idle"
  /\ \A u \in Threads : u < t => pc[u] # "idle"
  /\ ncalls < MaxCalls
  /\ \E o \in NewsOps \cup PostOps \cup UserOps : \E r \in ArgsOf(o) :
       /\ op' = [op EXCEPT ![t] = o]
       /\ req' = [req EXCEPT ![t] = r]
  /\ pc' = [pc EXCEPT ![t] = "start"]
  /\ resp' = [resp EXCEPT ![t] = NoResp]
  /\ aresp' = [aresp EXCEPT ![t] = NoResp]
  /\ loc' = [loc EXCEPT ![t] = 0]
  /\ ncalls' = ncalls + 1
  /\ UNCHANGED <<news, posts, users, lock, abs, created, base, gone, poisoned, snap>>

\* variant of LockFree: the posts mutex excludes nobody
LockFreeRace(c) == c = "posts" \/ lock[c] = 0

\* variant of LockFree: one mutex guards all three vectors
LockFreeGlobal(c) == \A d \in Colls : lock[d] = 0

\* Mutex::lock(): blocks while another guard is alive
LockFree(c) == lock[c] = 0

\* variant of Poisoned: the poison flag is ignored, as by
\* lock().unwrap_or_else(|e| e.into_inner())
PoisonedNever(c) == FALSE

\* the poison flag of the mutex: lock() answers Err(PoisonError) when it is set
Poisoned(c) == poisoned[c]

\* let lock = self.<coll>.lock().unwrap();
\* unwrap() of Err(PoisonError) panics before the body: the guard inside the
\* error is dropped and the call ends without a response
Acquire(t) ==
  /\ pc[t] = "start"
  /\ LockFree(CollOf(op[t]))
  /\ IF Poisoned(CollOf(op[t]))
     THEN /\ pc' = [pc EXCEPT ![t] = "idle"]
          /\ op' = [op EXCEPT ![t] = "none"]
          /\ req' = [req EXCEPT ![t] = None]
          /\ UNCHANGED <<lock, loc, resp, abs, aresp, snap>>
     ELSE /\ lock' = [lock EXCEPT ![CollOf(op[t])] = t]
          /\ pc' = [pc EXCEPT ![t] = "crit"]
          /\ LET r == Handler(op[t], abs[CollOf(op[t])], req[t]) IN
               /\ abs' = [abs EXCEPT ![CollOf(op[t])] = r.store]
               /\ aresp' = [aresp EXCEPT ![t] = r.resp]
          /\ snap' = [snap EXCEPT ![t] = Store(CollOf(op[t]))]
          /\ UNCHANGED <<op, req, loc, resp>>
  /\ UNCHANGED <<news, posts, users, ncalls, created, base, gone, poisoned>>

\* a panic unwinds the body of a handler: the guard is dropped while the
\* thread panics, which sets the poison flag, and the call ends without a
\* response (whatever the body had written so far stays in the vector)
Panic(t) ==
  /\ pc[t] \in {"crit", "m1", "m2"}
  /\ poisoned' = [poisoned EXCEPT ![CollOf(op[t])] = TRUE]
  /\ lock' = [lock EXCEPT ![CollOf(op[t])] = 0]
  /\ pc' = [pc EXCEPT ![t] = "idle"]
  /\ op' = [op EXCEPT ![t] = "none"]
  /\ req' = [req EXCEPT ![t] = None]
  /\ loc' = [loc EXCEPT ![t] = 0]
  /\ resp' = [resp EXCEPT ![t] = NoResp]
  /\ aresp' = [aresp EXCEPT ![t] = NoResp]
  /\ snap' = [snap EXCEPT ![t] = <<>>]
  /\ UNCHANGED <<news, posts, users, ncalls, abs, created, base, gone>>

\* variant of Return: the guard of a call that failed is never dropped
ReturnLeak(t) ==
  /\ pc[t] = "ret"
  /\ lock' = IF resp[t].status = "NotFound" THEN lock
             ELSE [lock EXCEPT ![CollOf(op[t])] = 0]
  /\ pc' = [pc EXCEPT ![t] = "idle"]
  /\ op' = [op EXCEPT ![t] = "none"]
  /\ req' = [req EXCEPT ![t] = None]
  /\ loc' = [loc EXCEPT ![t] = 0]
  /\ resp' = [resp EXCEPT ![t] = NoResp]
  /\ aresp' = [aresp EXCEPT ![t] = NoResp]
  /\ snap' = [snap EXCEPT ![t] = <<>>]
  /\ UNCHANGED <<news, posts, users, ncalls, abs, created, base, gone, poisoned>>

\* the handler returns: the guard goes out of scope
Return(t) ==
  /\ pc[t] = "ret"
  /\ lock' = [lock EXCEPT ![CollOf(op[t])] = 0]
  /\ pc' = [pc EXCEPT ![t] = "idle"]
  /\ op' = [op EXCEPT ![t] = "none"]
  /\ req' = [req EXCEPT ![t] = None]
  /\ loc' = [loc EXCEPT ![t] = 0]
  /\ resp' = [resp EXCEPT ![t] = NoResp]
  /\ aresp' = [aresp EXCEPT ![t] = NoResp]
  /\ snap' = [snap EXCEPT ![t] = <<>>]
  /\ UNCHANGED <<news, posts, users, ncalls, abs, created, base, gone, poisoned>>

Goto(t, p) == pc' = [pc EXCEPT ![t] = p]
Reply(t, r) == resp' = [resp EXCEPT ![t] = r]

\* a body that runs in one step and builds the response r.resp
Body(t, o, r) ==
  /\ pc[t] = "crit"
  /\ op[t] = o
  /\ Goto(t, "ret")
  /\ Reply(t, r.resp)
  /\ UNCHANGED <<lock, op, req, loc, ncalls, abs, aresp, snap>>

\* bookkeeping: a delete body ran and left the vector s
Deleted(c, s) ==
  /\ created' = [created EXCEPT ![c] = <<>>]
  /\ base' = [base EXCEPT ![c] = Len(s)]
  /\ gone' = [gone EXCEPT ![c] = @ \cup (Ids(Store(c)) \ Ids(s))]
  /\ UNCHANGED poisoned

\* bookkeeping: thread t answered a create with new_id; conc tells whether
\* another create on the same collection was in flight at that moment
Created(t, c, new_id) ==
  /\ created' = [created EXCEPT ![c] = Append(@,
       [t |-> t, id |-> new_id,
        conc |-> \E u \in Threads \ {t} : pc[u] # "idle" /\ op[u] = op[t]])]
  /\ UNCHANGED <<base, gone, poisoned>>

\* ---------------------------------------------------------- NewsService
get_all_news(t) ==
  /\ Body(t, "get_all_news", GetAllNews(news, req[t]))
  /\ UNCHANGED <<news, posts, users, created, base, gone, poisoned, snap>>

get_news(t) ==
  /\ Body(t, "get_news", GetNews(news, req[t].id))
  /\ UNCHANGED <<news, posts, users, created, base, gone, poisoned, snap>>

get_multiple_news(t) ==
  /\ Body(t, "get_multiple_news", GetMultipleNews(news, req[t].ids))
  /\ UNCHANGED <<news, posts, users, created, base, gone, poisoned, snap>>

delete_news(t) ==
  /\ Body(t, "delete_news", DeleteNews(news, req[t].id))
  /\ news' = DeleteNews(news, req[t].id).store
  /\ Deleted("news", DeleteNews(news, req[t].id).store)
  /\ UNCHANGED <<posts, users>>

\* if let Some(news) = find(..) { news.title = ..  |  else Err(not_found)
edit_news_title(t) ==
  /\ pc[t] = "crit" /\ op[t] = "edit_news"
  /\ LET i == Find(news, req[t].id) IN
       IF i # 0
       THEN /\ news' = EditTitle(news, i, req[t])
            /\ loc' = [loc EXCEPT ![t] = i]
            /\ Goto(t, "m1")
            /\ UNCHANGED resp
       ELSE /\ Goto(t, "ret")
            /\ Reply(t, NotFound("News not found"))
            /\ UNCHANGED <<news, loc>>
  /\ UNCHANGED <<posts, users, lock, op, req, ncalls, abs, aresp, created, base, gone, poisoned, snap>>

edit_news_body(t) ==
  /\ pc[t] = "m1" /\ op[t] = "edit_news"
  /\ news' = EditBody(news, loc[t], req[t])
  /\ Goto(t, "m2")
  /\ UNCHANGED <<posts, users, lock, op, req, loc, resp, ncalls, abs, aresp, created, base, gone, poisoned, snap>>

edit_news_image(t) ==
  /\ pc[t] = "m2" /\ op[t] = "edit_news"
  /\ news' = EditImage(news, loc[t], req[t])
  /\ Goto(t, "ret")
  /\ Reply(t, Ok(req[t]))
  /\ UNCHANGED <<posts, users, lock, op, req, loc, ncalls, abs, aresp, created, base, gone, poisoned, snap>>

\* let new_id = lock.iter().map(|n| n.id).max().unwrap_or(0) + 1;
NewIdStep(t, o, s) ==
  /\ pc[t] = "crit" /\ op[t] = o
  /\ loc' = [loc EXCEPT ![t] = NewId(s)]
  /\ Goto(t, "m1")
  /\ UNCHANGED <<news, posts, users, lock, op, req, resp, ncalls, abs, aresp, created, base, gone, poisoned, snap>>

\* e.id = new_id; lock.push(e.clone()); Ok(Response::new(e))
PushStep(t, o) ==
  /\ pc[t] = "m1" /\ op[t] = o
  /\ Goto(t, "ret")
  /\ Reply(t, Ok([req[t] EXCEPT !.id = loc[t]]))
  /\ UNCHANGED <<lock, op, req, loc, ncalls, abs, aresp, snap>>

add_news_id(t) == NewIdStep(t, "add_news", news)

add_news_push(t) ==
  /\ PushStep(t, "add_news")
  /\ news' = Push(news, req[t], loc[t])
  /\ Created(t, "news", loc[t])
  /\ UNCHANGED <<posts, users>>


\* ---------------------------------------------------------- PostService
list_posts(t) ==
  /\ Body(t, "list_posts", ListPosts(posts, req[t].user_id))
  /\ UNCHANGED <<news, posts, users, created, base, gone, poisoned, snap>>

get_post(t) ==
  /\ Body(t, "get_post", GetPost(posts, req[t].id))
  /\ UNCHANGED <<news, posts, users, created, base, gone, poisoned, snap>>

create_post_id(t) == NewIdStep(t, "create_post", posts)

create_post_push(t) ==
  /\ PushStep(t, "create_post")
  /\ posts' = Push(posts, req[t], loc[t])
  /\ Created(t, "posts", loc[t])
  /\ UNCHANGED <<news, users>>

update_post(t) ==
  /\ Body(t, "update_post", UpdatePost(posts, req[t]))
  /\ posts' = UpdatePost(posts, req[t]).store
  /\ UNCHANGED <<created, base, gone, poisoned, snap>>
  /\ UNCHANGED <<news, users>>

delete_post(t) ==
  /\ Body(t, "delete_post", DeletePost(posts, req[t].id))
  /\ posts' = DeletePost(posts, req[t].id).store
  /\ Deleted("posts", DeletePost(posts, req[t].id).store)
  /\ UNCHANGED <<news, users>>

\* ---------------------------------------------------------- UserService
list_users(t) ==
  /\ Body(t, "list_users", ListUsers(users, req[t].ids))
  /\ UNCHANGED <<news, posts, users, created, base, gone, poisoned, snap>>

get_user(t) ==
  /\ Body(t, "get_user", GetUser(users, req[t].id))
  /\ UNCHANGED <<news, posts, users, created, base, gone, poisoned, snap>>

create_user_id(t) == NewIdStep(t, "create_user", users)

create_user_push(t) ==
  /\ PushStep(t, "create_user")
  /\ users' = Push(users, req[t], loc[t])
  /\ Created(t, "users", loc[t])
  /\ UNCHANGED <<news, posts>>

\* if let Some(user) = find(..) { if let Some(name) ..  |  else Err(not_found)
patch_user_name(t) ==
  /\ pc[t] = "crit" /\ op[t] = "patch_user"
  /\ LET i == Find(users, req[t].id) IN
       IF i # 0
       THEN /\ users' = PatchName(users, i, req[t])
            /\ loc' = [loc EXCEPT ![t] = i]
            /\ Goto(t, "m1")
            /\ UNCHANGED resp
       ELSE /\ Goto(t, "ret")
            /\ Reply(t, NotFound("User not found"))
            /\ UNCHANGED <<users, loc>>
  /\ UNCHANGED <<news, posts, lock, op, req, ncalls, abs, aresp, created, base, gone, poisoned, snap>>

patch_user_username(t) ==
  /\ pc[t] = "m1" /\ op[t] = "patch_user"
  /\ users' = PatchUsername(users, loc[t], req[t])
  /\ Goto(t, "m2")
  /\ UNCHANGED <<news, posts, lock, op, req, loc, resp, ncalls, abs, aresp, created, base, gone, poisoned, snap>>

\* the last assignment, then Ok(Response::new(.. user.clone() ..))
patch_user_email(t) ==
  /\ pc[t] = "m2" /\ op[t] = "patch_user"
  /\ users' = PatchEmail(users, loc[t], req[t])
  /\ Goto(t, "ret")
  /\ Reply(t, Ok(PatchEmail(users, loc[t], req[t])[loc[t]]))
  /\ UNCHANGED <<news, posts, lock, op, req, loc, ncalls, abs, aresp, created, base, gone, poisoned, snap>>

delete_user(t) ==
  /\ Body(t, "delete_user", DeleteUser(users, req[t].id))
  /\ users' = DeleteUser(users, req[t].id).store
  /\ Deleted("users", DeleteUser(users, req[t].id).store)
  /\ UNCHANGED <<news, posts>>

\* ------------------------------------------------------------ the system
Next ==
  \E t \in Threads :
    \/ Call(t)
    \/ Acquire(t)
    \/ Return(t)
    \/ get_all_news(t)
    \/ get_news(t)
    \/ get_multiple_news(t)
    \/ delete_news(t)
    \/ edit_news_title(t)
    \/ edit_news_body(t)
    \/ edit_news_image(t)
    \/ add_news_id(t)
    \/ add_news_push(t)
    \/ list_posts(t)
    \/ get_post(t)
    \/ create_post_id(t)
    \/ create_post_push(t)
    \/ update_post(t)
    \/ delete_post(t)
    \/ list_users(t)
    \/ get_user(t)
    \/ create_user_id(t)
    \/ create_user_push(t)
    \/ patch_user_name(t)
    \/ patch_user_username(t)
    \/ patch_user_email(t)
    \/ delete_user(t)



Spec == Init /\ [][Next]_vars

\* the system in which a handler body may panic under its guard
NextPoison == Next \/ \E t \in Threads : Panic(t)

PoisonSpec == Init /\ [][NextPoison]_vars

\* the handlers of the system whose calls never stop coming: a get of each
\* service, a multi-step write and a delete (none of them grows a vector)
LiveOps == {"get_news", "edit_news", "get_post", "delete_post", "get_user"}

\* the service host dispatches a request, without end
CallLive(t) ==
  /\ pc[t] = "idle"
  /\ \A u \in Threads : u < t => pc[u] # "idle"
  /\ \E o \in LiveOps : \E r \in ArgsOf(o) :
       /\ op' = [op EXCEPT ![t] = o]
       /\ req' = [req EXCEPT ![t] = r]
  /\ pc' = [pc EXCEPT ![t] = "start"]
  /\ UNCHANGED <<news, posts, users, lock, loc, resp, ncalls, abs, aresp, created, base,
                 snap, gone, poisoned>>

\* a step of the invocation that thread t runs
Proceed(t) ==
  \/ Acquire(t)
  \/ Return(t)
  \/ op[t] = "get_news" /\ get_news(t)
  \/ op[t] = "edit_news" /\ edit_news_title(t)
  \/ op[t] = "edit_news" /\ edit_news_body(t)
  \/ op[t] = "edit_news" /\ edit_news_image(t)
  \/ op[t] = "get_post" /\ get_post(t)
  \/ op[t] = "delete_post" /\ delete_post(t)
  \/ op[t] = "get_user" /\ get_user(t)

NextLive == \E t \in Threads : CallLive(t) \/ Proceed(t)

\* every handler thread is scheduled again and again (weak fairness); the
\* mutex promises no order among the threads that wait for it
\* (every step of an invocation changes pc, so fairness is stated on pc)
LiveSpec == Init /\ [][NextLive]_vars /\ \A t \in Threads : WF_pc(Proceed(t))

\* =================================================================== claims
CreateOps == {"add_news", "create_post", "create_user"}
DeleteOps == {"delete_news", "delete_post", "delete_user"}
GetOps == {"get_news", "get_post", "get_user"}
\* the handlers that address one entity by id
IdOps == GetOps \cup DeleteOps \cup {"edit_news", "update_post", "patch_user"}

\* the id a request of handler o addresses
IdOf(o, r) == r.id

KindMsg(c) ==
  IF c = "news" THEN "News not found"
  ELSE IF c = "posts" THEN "Post not found" ELSE "User not found"

\* a Get of id on the vector s of collection c
GetOf(c, s, id) ==
  IF c = "news" THEN GetNews(s, id).resp
  ELSE IF c = "posts" THEN GetPost(s, id).resp ELSE GetUser(s, id).resp

\* the vector s without its element at index i
Without(s, i) == [k \in 1..(Len(s) - 1) |-> IF k < i THEN s[k] ELSE s[k + 1]]

\* thread t has run the body of handler set O and holds its response
AtRet(t, O) == pc[t] = "ret" /\ op[t] \in O

\* C1: in every reachable state no two entities of one collection have the
\* same id.
C1_UniqueIds ==
  \A c \in Colls : \A i, j \in 1..Len(Store(c)) :
    i < j => Store(c)[i].id # Store(c)[j].id

\* C1 witness: a delete and then a create have run on posts, and a post that
\* the create made sits next to a seed post.
C1_Witness ==
  /\ \A t \in Threads : pc[t] = "idle"
  /\ Len(posts) = 2 /\ base["posts"] = 1 /\ Len(created["posts"]) = 1

\* C2: a create call assigns max(ids of the collection) + 1, or 1 when the
\* collection is empty, whatever id the request carried, and the returned
\* entity carries that id (create_post on the seed state returns id 3).
C2_CreateAssignsMaxPlusOne ==
  \A t \in Threads : AtRet(t, CreateOps) =>
    LET c == CollOf(op[t])
        before == snap[t]
        expected == IF before = <<>> THEN 1
                    ELSE 1 + CHOOSE m \in Ids(before) : \A x \in Ids(before) : x <= m
    IN /\ resp[t].status = "Ok"
       /\ resp[t].val.id = expected
       /\ Len(Store(c)) = Len(before) + 1
       /\ Store(c)[Len(Store(c))].id = expected

\* C2 witness: create_post on the seed state with a request id of 1 has
\* returned id 3.
C2_Witness ==
  \E t \in Threads :
    /\ AtRet(t, {"create_post"}) /\ snap[t] = SeedPosts
    /\ req[t].id = 1 /\ resp[t].val.id = 3

\* C3: N concurrent creates on one collection, with no delete among them,
\* leave exactly N more entities, and the N returned ids are pairwise
\* distinct: no duplicate id, no lost insert.
C3_ConcurrentCreates ==
  \A c \in Colls :
    LET made == created[c] IN
    /\ Len(Store(c)) = base[c] + Len(made)
    /\ \A i, j \in 1..Len(made) : i < j => made[i].id # made[j].id
    /\ \A i \in 1..Len(made) :
         Cardinality({k \in 1..Len(Store(c)) : Store(c)[k].id = made[i].id}) = 1

\* C3 witness: two creates of different threads on one collection were in
\* flight together and both have been answered.
C3_Witness ==
  \E c \in Colls :
    /\ Len(created[c]) = 2
    /\ created[c][1].t # created[c][2].t
    /\ created[c][1].conc

\* two responses agree (the value is compared only between successes)
SameResp(a, b) ==
  /\ a.status = b.status
  /\ a.msg = b.msg
  /\ a.status = "Ok" => a.val = b.val

\* C4: operations on one collection are linearizable: every response equals
\* the response of the call in the sequential execution that runs the calls
\* whole, in the order in which they took the guard (a point between call
\* and return), and a collection nobody is working on is the collection that
\* execution leaves; no read returns a half-patched user.
C4_Linearizable ==
  /\ \A t \in Threads : pc[t] = "ret" => SameResp(resp[t], aresp[t])
  /\ \A c \in Colls : lock[c] = 0 => Store(c) = abs[c]

\* C4 witness: get_user has read user 1 while a patch_user of user 1 that
\* changes the name and the email is in flight on another thread.
C4_Witness ==
  \E t, u \in Threads :
    /\ t # u
    /\ AtRet(t, {"get_user"}) /\ req[t].id = 1 /\ resp[t].status = "Ok"
    /\ op[u] = "patch_user" /\ pc[u] = "start" /\ req[u].id = 1
    /\ req[u].name # None /\ req[u].email # None

\* C5: after a successful update_post or edit_news with request value v the
\* entity stored under v.id has all its fields replaced by those of v, the
\* call returns v, and a Get of that id right afterwards returns exactly the
\* value the call returned.
C5_ReplaceThenGet ==
  \A t \in Threads :
    (AtRet(t, {"update_post", "edit_news"}) /\ resp[t].status = "Ok") =>
      LET c == CollOf(op[t])
          i == Find(Store(c), req[t].id)
      IN /\ i # 0
         /\ Store(c)[i] = req[t]
         /\ resp[t].val = req[t]
         /\ GetOf(c, Store(c), req[t].id) = Ok(resp[t].val)

\* C6: round trip: when a create with entity e returns r, a Get of r.id right
\* afterwards returns r, and r equals e in every field other than id.
C6_CreateRoundTrip ==
  \A t \in Threads : AtRet(t, CreateOps) =>
    LET c == CollOf(op[t])
        r == resp[t].val
    IN /\ resp[t].status = "Ok"
       /\ GetOf(c, Store(c), r.id) = Ok(r)
       /\ [r EXCEPT !.id = req[t].id] = req[t]

\* C6 witness: create_user with an address and a company has returned, and
\* the request id differs from the assigned id.
C6_Witness ==
  \E t \in Threads :
    /\ AtRet(t, {"create_user"}) /\ req[t].address # None
    /\ req[t].id # resp[t].val.id /\ snap[t] = SeedUsers

\* C7: a delete of an id present in the collection succeeds, removes exactly
\* one entity (the size drops by 1, every other entity is kept unchanged and
\* in the same order), and a Get of that id right afterwards is not found.
C7_DeletePresent ==
  \A t \in Threads :
    (AtRet(t, DeleteOps) /\ req[t].id \in Ids(snap[t])) =>
      LET c == CollOf(op[t]) IN
      /\ resp[t].status = "Ok"
      /\ Len(Store(c)) = Len(snap[t]) - 1
      /\ \E i \in 1..Len(snap[t]) :
           snap[t][i].id = req[t].id /\ Store(c) = Without(snap[t], i)
      /\ GetOf(c, Store(c), req[t].id) = NotFound(KindMsg(c))

\* C7 witness: delete_news of the seed id 2 has run, after an earlier call
\* changed the collection.
C7_Witness ==
  \E t \in Threads :
    /\ AtRet(t, {"delete_news"}) /\ req[t].id = 2
    /\ snap[t] # SeedNews /\ 2 \in Ids(snap[t]) /\ Len(snap[t]) >= 5

\* one body step of thread t
BodyStep(t) == pc[t] = "crit" /\ pc'[t] # "crit"

\* C8: a get, update/edit, patch or delete whose id is absent from its
\* collection fails with not-found and the message "<Kind> not found",
\* leaving all three collections unchanged (no upsert, same size); a handler
\* returns a failure in no other case.
C8_NotFound ==
  /\ [][\A t \in Threads :
          (BodyStep(t) /\ op[t] \in IdOps
             /\ IdOf(op[t], req[t]) \notin Ids(Store(CollOf(op[t])))) =>
            /\ pc'[t] = "ret"
            /\ resp'[t] = NotFound(KindMsg(CollOf(op[t])))
            /\ news' = news /\ posts' = posts /\ users' = users]_vars
  /\ [](\A t \in Threads : pc[t] = "ret" =>
          /\ resp[t].status \in {"Ok", "NotFound"}
          /\ resp[t].status = "NotFound" =>
               /\ op[t] \in IdOps
               /\ IdOf(op[t], req[t]) \notin Ids(snap[t])
               /\ Store(CollOf(op[t])) = snap[t])

\* C8 witness: update_post of id 1 has failed with "Post not found" after
\* post 1 was deleted, and the one remaining post is untouched.
C8_Witness ==
  \E t \in Threads :
    /\ AtRet(t, {"update_post"}) /\ req[t].id = 1
    /\ resp[t] = NotFound("Post not found") /\ posts = <<SeedPosts[2]>>

\* C9: a successful patch_user changes, on the user with the request id,
\* exactly the supplied fields to the supplied values; every other field and
\* every other user keep their values, and the response is the stored user.
C9_PatchPartial ==
  \A t \in Threads :
    (AtRet(t, {"patch_user"}) /\ resp[t].status = "Ok") =>
      \E i \in 1..Len(snap[t]) :
        LET old == snap[t][i]
            new == users[i]
        IN /\ old.id = req[t].id
           /\ Len(users) = Len(snap[t])
           /\ \A j \in 1..Len(users) : j # i => users[j] = snap[t][j]
           /\ new.name = (IF req[t].name = None THEN old.name ELSE req[t].name[1])
           /\ new.username = (IF req[t].username = None THEN old.username ELSE req[t].username[1])
           /\ new.email = (IF req[t].email = None THEN old.email ELSE req[t].email[1])
           /\ new.id = old.id /\ new.phone = old.phone /\ new.website = old.website
           /\ new.address = old.address /\ new.company = old.company
           /\ resp[t].val = new

\* C9 witness: patch_user(1, name) on the seed user has returned the new name
\* with the seed username and email.
C9_Witness ==
  \E t \in Threads :
    /\ AtRet(t, {"patch_user"}) /\ req[t].id = 1
    /\ req[t].name # None /\ req[t].username = None /\ req[t].email = None
    /\ resp[t].status = "Ok" /\ resp[t].val.name = "New Name"
    /\ resp[t].val.username = "Bret" /\ resp[t].val.email = "Sincere@april.biz"

\* l holds exactly the elements of s at the indices in M, each once
ExactlyThose(l, s, M) ==
  /\ Len(l) = Cardinality(M)
  /\ \A k \in 1..Len(l) : \E i \in M : l[k] = s[i]
  /\ \A i \in M : \E k \in 1..Len(l) : l[k] = s[i]

\* C10: list_posts without user_id, list_users with an empty id set and
\* get_all_news return the whole collection; list_posts with user_id u
\* returns exactly the posts whose user_id is u, and list_users with a
\* non-empty id set returns exactly the users whose id is in the set.
C10_FilterCorrect ==
  \A t \in Threads : AtRet(t, {"get_all_news", "list_posts", "list_users"}) =>
    /\ resp[t].status = "Ok"
    /\ op[t] = "get_all_news" => resp[t].val.news = news
    /\ (op[t] = "list_posts" /\ req[t].user_id = None) => resp[t].val.posts = posts
    /\ (op[t] = "list_posts" /\ req[t].user_id # None) =>
         ExactlyThose(resp[t].val.posts, posts,
                      {i \in 1..Len(posts) : posts[i].user_id = req[t].user_id[1]})
    /\ (op[t] = "list_users" /\ req[t].ids = <<>>) => resp[t].val.users = users
    /\ (op[t] = "list_users" /\ req[t].ids # <<>>) =>
         ExactlyThose(resp[t].val.users, users,
                      {i \in 1..Len(users) :
                         \E k \in 1..Len(req[t].ids) : req[t].ids[k] = users[i].id})

\* C10 witness: list_posts with user_id 2 has returned one post of three.
C10_Witness ==
  \E t \in Threads :
    /\ AtRet(t, {"list_posts"}) /\ req[t].user_id = Some(2)
    /\ Len(resp[t].val.posts) = 1 /\ Len(posts) = 3

\* C11: get_multiple_news with id list L always succeeds and returns exactly
\* the news items whose id occurs in L, each at most once even when L repeats
\* an id; ids of L that match no item are left out, and a list of absent ids
\* only, or an empty list, yields an empty result and no failure.
C11_GetMultiple ==
  \A t \in Threads : AtRet(t, {"get_multiple_news"}) =>
    LET L == req[t].ids
        found == resp[t].val.news
        hit == {i \in 1..Len(news) : \E k \in 1..Len(L) : L[k] = news[i].id}
    IN /\ resp[t].status = "Ok"
       /\ ExactlyThose(found, news, hit)
       /\ \A k, m \in 1..Len(found) : k # m => found[k] # found[m]
       /\ (\A k \in 1..Len(L) : L[k] \notin Ids(news)) => found = <<>>

\* C11 witness: get_multiple_news([2, 0, 2]) has returned news item 2 once.
C11_Witness ==
  \E t \in Threads :
    /\ AtRet(t, {"get_multiple_news"}) /\ req[t].ids = <<2, 0, 2>>
    /\ Len(resp[t].val.news) = 1 /\ resp[t].val.news[1].id = 2 /\ Len(news) >= 5

ReadOps ==
  {"get_all_news", "get_news", "get_multiple_news", "list_posts", "get_post",
   "list_users", "get_user"}

\* thread t takes a step of an invocation of a handler in O
StepOf(t, O) == pc'[t] # pc[t] /\ (op[t] \in O \/ op'[t] \in O)

\* C12: the read calls never modify any collection; a Get of id i succeeds
\* exactly when an entity with id i is stored, and then returns that entity
\* with all its stored fields (on the seed state get_post(1) returns the post
\* titled "Post 1" and get_user(1) the user named "Leanne Graham").
C12_ReadsPure ==
  /\ [][\A t \in Threads : StepOf(t, ReadOps) =>
          news' = news /\ posts' = posts /\ users' = users]_vars
  /\ [](\A t \in Threads : AtRet(t, GetOps) =>
          LET s == Store(CollOf(op[t])) IN
          /\ s = snap[t]
          /\ (resp[t].status = "Ok") <=> (req[t].id \in Ids(s))
          /\ resp[t].status = "Ok" =>
               \E i \in 1..Len(s) : s[i].id = req[t].id /\ resp[t].val = s[i]
          /\ (op[t] = "get_post" /\ req[t].id = 1 /\ s = SeedPosts) =>
               resp[t].val.title = "Post 1"
          /\ (op[t] = "get_user" /\ req[t].id = 1 /\ s = SeedUsers) =>
               resp[t].val.name = "Leanne Graham")

\* C12 witness: get_post(2) has returned the stored post 2 after an earlier
\* call removed post 1.
C12_Witness ==
  \E t \in Threads :
    /\ AtRet(t, {"get_post"}) /\ req[t].id = 2
    /\ posts = <<SeedPosts[2]>> /\ resp[t] = Ok(SeedPosts[2])

\* thread t is between taking the guard and dropping it
InGuard(t) == pc[t] \in {"crit", "m1", "m2", "ret"}

\* C13: at most one invocation at a time holds the lock of a collection, no
\* invocation holds more than one lock, every read and write of a collection
\* is a step of the invocation that holds its lock, and the lock is released
\* when the invocation returns, after a success and after not-found alike.
C13_LockDiscipline ==
  /\ [](\A t \in Threads :
          /\ InGuard(t) => lock[CollOf(op[t])] = t
          /\ Cardinality({c \in Colls : lock[c] = t}) <= 1
          /\ ~InGuard(t) => \A c \in Colls : lock[c] # t)
  /\ [][\A c \in Colls : Store(c)' # Store(c) =>
          \E t \in Threads : lock[c] = t /\ pc'[t] # pc[t] /\ CollOf(op[t]) = c]_vars
  /\ [][\A t \in Threads : (InGuard(t) /\ pc'[t] # pc[t]) =>
          /\ lock[CollOf(op[t])] = t
          /\ pc'[t] = "idle" => (pc[t] = "ret" /\ lock'[CollOf(op[t])] = 0)
          /\ pc'[t] # "idle" => lock' = lock]_vars

\* C13 witness: an invocation that ended in not-found still holds the guard
\* of its collection while another invocation waits for that lock.
C13_Witness ==
  \E t, u \in Threads :
    /\ pc[t] = "ret" /\ resp[t].status = "NotFound"
    /\ pc[u] = "start" /\ CollOf(op[u]) = CollOf(op[t])
    /\ lock[CollOf(op[t])] = t

\* C15: the collections are independent: a call of one kind leaves the other
\* two collections unchanged and never waits for their locks, so it takes its
\* own free lock while calls of the other kinds hold theirs; delete_user
\* neither removes nor alters a post, and create_post and update_post accept
\* a user_id that matches no user.
C15_Independent ==
  /\ [][\A t \in Threads : pc'[t] # pc[t] =>
          LET own == CollOf(IF op[t] = "none" THEN op'[t] ELSE op[t]) IN
          \A c \in Colls \ {own} : Store(c)' = Store(c) /\ lock'[c] = lock[c]]_vars
  /\ [](\A t \in Threads :
          /\ (pc[t] = "start" /\ lock[CollOf(op[t])] = 0) => ENABLED Acquire(t)
          /\ AtRet(t, {"create_post"}) => resp[t].status = "Ok"
          /\ (AtRet(t, {"update_post"}) /\ req[t].id \in Ids(snap[t])) =>
               resp[t].status = "Ok")

\* C15 witness: delete_user(1) has removed the only user while both posts of
\* user_id 1 are stored and another invocation holds the posts lock.
C15_Witness ==
  \E t, u \in Threads :
    /\ AtRet(t, {"delete_user"}) /\ req[t].id = 1 /\ users = <<>>
    /\ posts = SeedPosts /\ InGuard(u) /\ lock["posts"] = u

\* the elements of s at the indices in M, in the order of s
Restrict(s, M) ==
  [k \in 1..Cardinality(M) |->
     s[CHOOSE i \in M : Cardinality({j \in M : j <= i}) = k]]

\* l is s with some elements left out, the others in the order of s
IsSubSeq(l, s) == \E M \in SUBSET (1..Len(s)) : l = Restrict(s, M)

ListOps == {"get_all_news", "get_multiple_news", "list_posts", "list_users"}

\* the list that the list call of thread t returned
Listed(t) ==
  IF op[t] \in NewsOps THEN resp[t].val.news
  ELSE IF op[t] \in PostOps THEN resp[t].val.posts ELSE resp[t].val.users

\* the list call of thread t asked for the whole collection
Unfiltered(t) ==
  \/ op[t] = "get_all_news"
  \/ op[t] = "list_posts" /\ req[t].user_id = None
  \/ op[t] = "list_users" /\ req[t].ids = <<>>

\* C17: a vector is in insertion order: a create appends the new entity at
\* the end, an update, edit or patch keeps every entity at its position, a
\* delete keeps the relative order of the entities that remain, an unfiltered
\* list returns the vector in that order and a filtered list is a subsequence
\* of it.
C17_InsertionOrder ==
  /\ [][\A t \in Threads : \A c \in Colls :
          (InGuard(t) /\ CollOf(op[t]) = c) =>
            /\ (StepOf(t, CreateOps) /\ pc'[t] = "ret") =>
                 Store(c)' = Append(Store(c), resp'[t].val)
            /\ StepOf(t, {"edit_news", "update_post", "patch_user"}) =>
                 /\ Len(Store(c)') = Len(Store(c))
                 /\ \A i \in 1..Len(Store(c)) : Store(c)'[i].id = Store(c)[i].id
            /\ StepOf(t, DeleteOps) => IsSubSeq(Store(c)', Store(c))]_vars
  /\ [](/\ \A t \in Threads : AtRet(t, ListOps) =>
             /\ IsSubSeq(Listed(t), Store(CollOf(op[t])))
             /\ Unfiltered(t) => Listed(t) = Store(CollOf(op[t]))
        /\ \A c \in Colls : \A k \in 1..Len(created[c]) :
             Store(c)[base[c] + k].id = created[c][k].id)

\* C17 witness: list_posts without filter has returned the two seed posts
\* followed by a created post.
C17_Witness ==
  \E t \in Threads :
    /\ AtRet(t, {"list_posts"}) /\ req[t].user_id = None
    /\ Len(Listed(t)) = 3 /\ Listed(t)[1] = SeedPosts[1]
    /\ Listed(t)[2] = SeedPosts[2] /\ Listed(t)[3].title = "New Post"

\* C18: edit_news of a stored id changes only the title, the body and the
\* post_image of that news item; its id and its status keep their stored
\* values whatever status the request carries, and every other item is
\* unchanged.
C18_EditKeepsIdStatus ==
  \A t \in Threads :
    (AtRet(t, {"edit_news"}) /\ req[t].id \in Ids(snap[t])) =>
      \E i \in 1..Len(snap[t]) :
        /\ snap[t][i].id = req[t].id
        /\ resp[t].status = "Ok"
        /\ Len(news) = Len(snap[t])
        /\ \A j \in 1..Len(news) : j # i => news[j] = snap[t][j]
        /\ news[i] = [snap[t][i] EXCEPT !.title = req[t].title,
                                        !.body = req[t].body,
                                        !.post_image = req[t].post_image]
        /\ news[i].id = snap[t][i].id
        /\ news[i].status = snap[t][i].status

\* C18 witness: edit_news of news 1 with status 1 in the request has
\* returned, and the stored news 1 has the new title and its status 0.
C18_Witness ==
  \E t \in Threads :
    /\ AtRet(t, {"edit_news"}) /\ req[t].id = 1 /\ req[t].status = 1
    /\ news[1].id = 1 /\ news[1].title = "New title" /\ news[1].status = 0

\* C20: the vector of every collection is strictly increasing in id from the
\* first element to the last, and every stored id is at least 1.
C20_SortedIds ==
  \A c \in Colls : \A i \in 1..Len(Store(c)) :
    /\ Store(c)[i].id >= 1
    /\ i < Len(Store(c)) => Store(c)[i].id < Store(c)[i + 1].id

\* C20 witness: posts holds the seed post 1 and a created post 3, post 2
\* having been deleted after the create.
C20_Witness ==
  /\ Len(posts) = 2 /\ posts[1].id = 1 /\ posts[2].id = 3
  /\ \A t \in Threads : pc[t] = "idle"

\* C16: id allocation never reuses the id of a deleted entity while other
\* entities remain in the collection: an id that was assigned and then
\* deleted is assigned again by a later create only when all entities of the
\* collection have been removed.
C16_NoReuseWhileOthersRemain ==
  \A t \in Threads : AtRet(t, CreateOps) =>
    (resp[t].val.id \in gone[CollOf(op[t])] => snap[t] = <<>>)

\* C16 as the code has it: a create never assigns the id of a stored entity,
\* and it assigns a deleted id again exactly when that id is larger than every
\* id left in the collection (which includes the empty collection); an id
\* below a remaining id is never assigned again.
C16_ReuseOnlyAboveTheRest ==
  \A t \in Threads : AtRet(t, CreateOps) =>
    LET id == resp[t].val.id
        c == CollOf(op[t])
    IN /\ id \notin Ids(snap[t])
       /\ id \in gone[c] <=> (\E d \in gone[c] : \A x \in Ids(snap[t]) : x < d)
       /\ id \in gone[c] => \A x \in Ids(snap[t]) : x < id

\* C16 witness: a create has been given an id that a delete removed before,
\* while an entity with a smaller id is still stored.
C16_Witness ==
  \E t \in Threads :
    /\ AtRet(t, CreateOps) /\ resp[t].val.id \in gone[CollOf(op[t])]
    /\ snap[t] # <<>> /\ Len(Store(CollOf(op[t]))) >= 2

\* C19: lock poisoning: when a handler invocation panics while it holds the
\* lock of a collection, that lock is poisoned for good, every later call on
\* the same collection ends without a response and without modifying the
\* collection, and calls on the other two collections behave as ever.
C19_Poisoning ==
  /\ [][\A t \in Threads : \A c \in Colls : CollOf(op[t]) = c =>
          /\ (pc[t] \in {"crit", "m1", "m2"} /\ pc'[t] = "idle") =>
               poisoned'[c] /\ lock'[c] = 0
          /\ (pc[t] = "start" /\ poisoned[c] /\ pc'[t] # pc[t]) =>
               /\ pc'[t] = "idle" /\ resp'[t] = NoResp
               /\ news' = news /\ posts' = posts /\ users' = users
          /\ poisoned[c] => (poisoned'[c] /\ Store(c)' = Store(c))]_vars
  /\ [](\A t \in Threads : InGuard(t) =>
          /\ ~poisoned[CollOf(op[t])]
          /\ pc[t] = "ret" =>
               LET r == Handler(op[t], snap[t], req[t]) IN
               /\ SameResp(resp[t], r.resp)
               /\ Store(CollOf(op[t])) = r.store)

\* C19 witness: a patch_user panicked after it had written the name, the
\* users lock is poisoned and free, and a later call on users is about to
\* take it.
C19_Witness ==
  \E t \in Threads :
    /\ poisoned["users"] /\ lock["users"] = 0
    /\ users # <<>> /\ users[1].name = "New Name" /\ users[1].email = "Sincere@april.biz"
    /\ pc[t] = "start" /\ CollOf(op[t]) = "users"

\* no state has a handler waiting for a lock while no invocation can take a step
NoDeadlock ==
  (\E t \in Threads : pc[t] = "start") => \E u \in Threads : ENABLED Proceed(u)

\* C14: deadlock freedom and progress: under weak fairness of the handler
\* threads, with no handler aborting, every invocation that starts eventually
\* takes the lock of its collection and returns a response, and no reachable
\* state has handlers waiting on locks with none able to proceed.
C14_Progress ==
  /\ \A t \in Threads : (pc[t] = "start") ~> (pc[t] = "ret")
  /\ []NoDeadlock

\* C14 as the code has it: no reachable state has handlers waiting on locks
\* with none able to proceed; under weak fairness every invocation that has
\* taken its lock returns a response and releases the lock, so the lock a
\* handler waits for is free again and again; the waiting invocation itself
\* is sure to take it only if lock acquisition is strongly fair.
C14_ProgressOfHolders ==
  /\ []NoDeadlock
  /\ \A t \in Threads : InGuard(t) ~> (pc[t] = "idle")
  /\ \A t \in Threads : (pc[t] = "start") ~> (lock[CollOf(op[t])] = 0 \/ pc[t] # "start")
  /\ (\A t \in Threads : SF_pc(Acquire(t))) =>
       \A t \in Threads : (pc[t] = "start") ~> (pc[t] = "ret")

\* C14 witness: an invocation waits for the posts lock while another
\* invocation holds it, after an earlier delete_post has returned.
C14_Witness ==
  \E t, u \in Threads :
    /\ pc[t] = "start" /\ CollOf(op[t]) = "posts"
    /\ InGuard(u) /\ lock["posts"] = u /\ gone["posts"] # {}

====
